---------------------------- MODULE Spec2Model ----------------------------
(* The request handlers of src/main.py (extract_text, generate_apkg) as a   *)
(* state machine.  A request in flight and the environment it meets (the   *)
(* local images folder, the Drive lookup) are drawn in Init; one action    *)
(* per handler runs the whole handler and records the response, the deck,  *)
(* the media manifest handed to Package and the transient files on disk.   *)
(*                                                                         *)
(* src/main.py writes `jsonify({...}], 400)` at lines 146, 157 and 252,    *)
(* which does not compile; the handlers are modelled with the evident      *)
(* `jsonify({...}), 400`.                                                  *)
(*                                                                         *)
(* Python strings are sequences of one-character strings.  JSON values are *)
(* tagged records: null, bool, int, str, list, dict.                       *)
EXTENDS Integers, Sequences, FiniteSets, TLC

VARIABLES request, env, pc, status, raw_cards, processed, media_files,
          notes, slides, fs

vars == <<request, env, pc, status, raw_cards, processed, media_files,
          notes, slides, fs>>

-----------------------------------------------------------------------------
(* Bounds *)

\* Longest card list of a payload.
MaxCards == 2

\* Most pages of an uploaded PDF.
MaxPages == 2

-----------------------------------------------------------------------------
(* Python strings *)

RECURSIVE Concat(_)
\* "".join(parts), also the flattening of a list of lists.
Concat(ss) == IF ss = <<>> THEN <<>> ELSE Head(ss) \o Concat(Tail(ss))

UpperChars == <<"A","B","C","D","E","F","G","H","I","J","K","L","M",
                "N","O","P","Q","R","S","T","U","V","W","X","Y","Z">>
LowerChars == <<"a","b","c","d","e","f","g","h","i","j","k","l","m",
                "n","o","p","q","r","s","t","u","v","w","x","y","z">>

\* The lower-case form of each upper-case letter.
LowerOf ==
    [c \in {UpperChars[i] : i \in 1..Len(UpperChars)} |->
        LowerChars[CHOOSE i \in 1..Len(UpperChars) : UpperChars[i] = c]]

LowerChar(c) == IF c \in DOMAIN LowerOf THEN LowerOf[c] ELSE c

\* str.lower()
Lower(s) == [i \in 1..Len(s) |-> LowerChar(s[i])]

\* str.endswith(suffix)
EndsWith(s, suffix) ==
    /\ Len(s) >= Len(suffix)
    /\ SubSeq(s, Len(s) - Len(suffix) + 1, Len(s)) = suffix

\* str.endswith(tuple of suffixes)
EndsWithAny(s, suffixes) == \E x \in suffixes : EndsWith(s, x)

DigitChars == <<"0","1","2","3","4","5","6","7","8","9">>

RECURSIVE StrOfNat(_)
StrOfNat(n) ==
    IF n < 10 THEN <<DigitChars[n + 1]>>
    ELSE StrOfNat(n \div 10) \o <<DigitChars[(n % 10) + 1]>>

\* str(n) of a Python int
StrOfInt(n) == IF n < 0 THEN <<"-">> \o StrOfNat(-n) ELSE StrOfNat(n)

RECURSIVE Zeros(_)
Zeros(k) == IF k <= 0 THEN <<>> ELSE <<"0">> \o Zeros(k - 1)

\* str.zfill(width): zeros go after a leading sign.
ZFill(s, width) ==
    IF Len(s) >= width THEN s
    ELSE IF s # <<>> /\ s[1] \in {"+", "-"}
         THEN <<s[1]>> \o Zeros(width - Len(s)) \o Tail(s)
         ELSE Zeros(width - Len(s)) \o s

\* The width zfill is called with.
ZFillWidth == 5

-----------------------------------------------------------------------------
(* JSON values *)

None == [t |-> "null"]
JBool(b) == [t |-> "bool", v |-> b]
JInt(n) == [t |-> "int", v |-> n]
JStr(s) == [t |-> "str", v |-> s]
JList(xs) == [t |-> "list", v |-> xs]
JDict(f) == [t |-> "dict", v |-> f]

EmptyDict == [k \in {} |-> None]

\* Python truthiness, as `if not x` and `x or y` use it.
Truthy(x) ==
    CASE x.t = "null" -> FALSE
      [] x.t = "bool" -> x.v
      [] x.t = "int" -> x.v # 0
      [] x.t = "str" -> x.v # <<>>
      [] x.t = "list" -> x.v # <<>>
      [] x.t = "dict" -> DOMAIN x.v # {}

\* dict.get(key, default)
Get(d, key, default) == IF key \in DOMAIN d THEN d[key] ELSE default

\* str(x) of a value that is formatted into a suffix or the Slide Number field.
PyStr(x) ==
    CASE x.t = "int" -> StrOfInt(x.v)
      [] x.t = "str" -> x.v
      [] x.t = "null" -> <<"N","o","n","e">>
      [] x.t = "bool" -> IF x.v THEN <<"T","r","u","e">> ELSE <<"F","a","l","s","e">>

-----------------------------------------------------------------------------
(* Inputs: file names, cards, request bodies, uploads, environments *)

SeqsUpTo(S, n) == UNION {[1..k -> S] : k \in 0..n}

\* Every order os.listdir or the Drive API may return the names of S in.
Listings(S) ==
    {l \in [1..Cardinality(S) -> S] : \A i, j \in 1..Cardinality(S) : l[i] = l[j] => i = j}

Name_a1 == <<"a","-","0","0","0","0","1",".","j","p","g">>
Name_B1 == <<"B","-","0","0","0","0","1",".","J","P","G">>
Name_c2 == <<"c","-","0","0","0","0","2",".","j","p","g">>
Name_ob1 == <<"o","'","b","-","0","0","0","0","1",".","j","p","g">>
Name_txt == <<"n","o","t","e","s",".","t","x","t">>

IMAGE_FOLDER == <<"i","m","a","g","e","s">>
MEDIA_EXTS == {<<".","p","n","g">>, <<".","j","p","g">>, <<".","j","p","e","g">>}

\* f"<img src='{name}'>"
ImgTag(name) == <<"<","i","m","g"," ","s","r","c","=","'">> \o name \o <<"'",">">>

Q1 == JStr(<<"Q","1">>)
A1 == JStr(<<"A","1">>)
E1 == JStr(<<"E","1">>)

\* The raw cards a caller sends: sparse mappings, keys in either case, slide
\* numbers absent, scalar (0 included) or lists (empty, distinct, repeated).
Cards ==
    { EmptyDict,
      [question |-> JStr(<<>>)],
      [question |-> None],
      [question |-> JStr(<<>>), Question |-> Q1],
      [question |-> Q1, answer |-> A1, explanation |-> E1,
       slide_number |-> JInt(2), image |-> JStr(ImgTag(Name_a1))],
      [Question |-> Q1, Answer |-> A1, Explanation |-> E1,
       Slide_number |-> JInt(2), Image |-> JStr(ImgTag(Name_a1))],
      [slide_number |-> JInt(0)],
      [slide_number |-> JList(<<>>)],
      [slide_number |-> JList(<<JInt(1), JInt(1), JInt(2)>>)] }

\* What a card list holds: cards, or (double-nested callers) lists of cards.
Elements ==
    {JDict(c) : c \in Cards}
    \cup { JList(<<JDict([question |-> Q1]), JDict(EmptyDict)>>),
           JList(<<JDict([slide_number |-> JInt(1)])>>) }

CardLists == {JList(xs) : xs \in SeqsUpTo(Elements, MaxCards)}

LectureId == JStr(<<"i","d">>)

ObjKeys == {"cards", "lecture_file_drive_id"}

ObjBodies ==
    { JDict([k \in D |-> CASE k = "cards" -> cl
                           [] k = "lecture_file_drive_id" -> LectureId])
      : D \in SUBSET ObjKeys, cl \in CardLists \cup {None} }

\* JSON documents sent as a JSON string (double-encoded callers).
Doc_bad == <<"{","o","o","p","s">>
Doc_list == <<"[","{","}","]">>
Doc_int == <<"7">>
Doc_str == <<"\"","x","\"">>

StringBodies == {JStr(Doc_bad), JStr(Doc_list), JStr(Doc_int), JStr(Doc_str)}

Invalid == [t |-> "invalid"]

\* The request body: not JSON at all, or a JSON value.
Bodies ==
    {Invalid, None, JInt(7), JBool(TRUE)} \cup StringBodies \cup CardLists \cup ObjBodies

PageTexts == {<<>>, <<" ","\n">>, <<"a","b"," ">>}

\* The multipart upload: no file field, a file fitz cannot open, or a PDF
\* given by its pages' text.
Uploads ==
    {[file |-> "absent"], [file |-> "corrupt"]}
    \cup {[file |-> "pdf", pages |-> ps] : ps \in SeqsUpTo(PageTexts, MaxPages)}

Requests ==
    {[endpoint |-> "/generate-apkg", body |-> b] : b \in Bodies}
    \cup {[endpoint |-> "/extract-text", upload |-> u] : u \in Uploads}

NoDir == [isdir |-> FALSE, names |-> <<>>]
Dir(l) == [isdir |-> TRUE, names |-> l]

\* The local images folder: missing, or holding one of these sets of files.
LocalFolders ==
    {NoDir} \cup {Dir(l) : l \in UNION {Listings(S) :
                     S \in {{Name_a1}, {Name_a1, Name_B1}, {Name_a1, Name_c2},
                            {Name_ob1}}}}

\* What the Drive folder of the lecture lists (mimeType image/*).
DriveFolders == {<<Name_B1, Name_a1, Name_txt>>}

NotConsulted == [find |-> "unused"]

\* How the Drive lookup of a lecture file goes: find_matching_folder_for_pdf
\* raises, finds no folder, or finds one; download_images_from_drive then
\* raises before os.makedirs ("service"), raises while the last image is being
\* written ("midway"), or returns.  listing is what os.listdir gives for the
\* destination folder afterwards.
DriveOutcomes ==
    { [find |-> "raise"], [find |-> "none"],
      [find |-> "found", files |-> <<>>, download |-> "service", listing |-> <<>>] }
    \cup UNION { { [find |-> "found", files |-> F, download |-> d, listing |-> l]
                   : d \in {"ok", "midway"},
                     l \in Listings({F[i] : i \in {j \in 1..Len(F) :
                                        EndsWithAny(Lower(F[j]), MEDIA_EXTS)}}) }
                 : F \in DriveFolders }

-----------------------------------------------------------------------------
(* Paths and temporary files *)

\* os.path.join(folder, name)
PathJoin(folder, name) == folder \o <<"/">> \o name

\* os.path.basename(path)
Basename(path) ==
    LET slashes == {i \in 1..Len(path) : path[i] = "/"}
    IN  IF slashes = {} THEN path
        ELSE SubSeq(path, (CHOOSE i \in slashes : \A j \in slashes : j <= i) + 1, Len(path))

\* str.replace(' ', '_')
ReplaceSpaces(s) == [i \in 1..Len(s) |-> IF s[i] = " " THEN "_" ELSE s[i]]

\* f"/tmp/{deck_name.replace(' ','_')}"
TmpImgFolder(deck_name) == <<"/","t","m","p","/">> \o ReplaceSpaces(deck_name)

\* The files tempfile.NamedTemporaryFile(delete=False, suffix=...) creates.
TmpPdf == <<"/","t","m","p","/","t","m","p","0",".","p","d","f">>
TmpApkg == <<"/","t","m","p","/","t","m","p","0",".","a","p","k","g">>

DefaultDeckName == JStr(<<"L","e","c","t","u","r","e"," ","D","e","c","k">>)

-----------------------------------------------------------------------------
(* generate_apkg: payload parsing *)

\* request.get_json(silent=True): None when the body is not JSON.
get_json(body) == IF body.t = "invalid" THEN None ELSE body

BadJson == [t |-> "error"]

\* json.loads on the documents of StringBodies; anything else raises.
json_loads(doc) ==
    CASE doc = Doc_list -> JList(<<JDict(EmptyDict)>>)
      [] doc = Doc_int -> JInt(7)
      [] doc = Doc_str -> JStr(<<"x">>)
      [] OTHER -> BadJson

\* data after the isinstance(data, str) branch; BadJson when json.loads raised.
ParsedData(body) ==
    LET data == get_json(body)
    IN  IF data.t = "str" THEN json_loads(data.v) ELSE data

\* raw_cards, deck_name, lecture_file_id of a list or dict payload.
PayloadFields(data) ==
    IF data.t = "list"
    THEN [raw_cards |-> data, deck_name |-> DefaultDeckName, lecture_file_id |-> None]
    ELSE [raw_cards |-> Get(data.v, "cards", JList(<<>>)),
          deck_name |-> Get(data.v, "deck_name", DefaultDeckName),
          lecture_file_id |-> Get(data.v, "lecture_file_drive_id", None)]

-----------------------------------------------------------------------------
(* generate_apkg: the Drive download *)

\* The paths download_images_from_drive returns: the listed files with a
\* media extension, in the order Drive lists them.
Downloaded(files, dest_folder) ==
    LET keep == SelectSeq(files, LAMBDA name : EndsWithAny(Lower(name), MEDIA_EXTS))
    IN  [i \in 1..Len(keep) |-> PathJoin(dest_folder, keep[i])]

\* What lines 160-169 leave: whether tmp_img_folder is set, its path, the
\* folder on disk, and media_files.
DriveStep(fields, drive) ==
    LET unset == [set |-> FALSE, path |-> <<>>, dir |-> NoDir, media_files |-> <<>>]
        dest == TmpImgFolder(fields.deck_name.v)
    IN  IF \/ ~Truthy(fields.lecture_file_id)
           \/ drive.find # "found"
           \/ fields.deck_name.t # "str"      \* .replace raises, caught at line 168
        THEN unset
        ELSE [set |-> TRUE, path |-> dest,
              dir |-> IF drive.download = "service" THEN NoDir ELSE Dir(drive.listing),
              media_files |-> IF drive.download = "ok"
                              THEN Downloaded(drive.files, dest) ELSE <<>>]

\* The folders the matching loop visits, in order, with what is on disk.
Folders(step, local) ==
    (IF step.set THEN <<[path |-> step.path, dir |-> step.dir]>> ELSE <<>>)
    \o <<[path |-> IMAGE_FOLDER, dir |-> local]>>

-----------------------------------------------------------------------------
(* generate_apkg: the card loop *)

\* SlideNumbers as it would be with c.get("slide_number", idx), without the `or`.
SlideNumbers_NoFallback(c, idx) ==
    LET sn == Get(c, "slide_number", JInt(idx))
    IN  IF sn.t = "list" THEN sn.v ELSE <<sn>>

\* sn = c.get("slide_number") or idx; nums = sn if isinstance(sn, list) else [sn]
SlideNumbers(c, idx) ==
    LET got == Get(c, "slide_number", None)
        sn == IF Truthy(got) THEN got ELSE JInt(idx)
    IN  IF sn.t = "list" THEN sn.v ELSE <<sn>>

\* f"-{str(num).zfill(5)}.jpg"
Suffix(num) == <<"-">> \o ZFill(PyStr(num), ZFillWidth) \o <<".","j","p","g">>

\* The inner loop over os.listdir(folder) with its break: the first name
\* whose lower-cased form ends with the suffix, if any.
FirstMatch(names, suffix) ==
    LET hits == {i \in 1..Len(names) : EndsWith(Lower(names[i]), suffix)}
    IN  IF hits = {} THEN <<>>
        ELSE <<names[CHOOSE i \in hits : \A j \in hits : i <= j]>>

\* The loop over (tmp_img_folder, IMAGE_FOLDER) for one slide number: every
\* folder that is a directory contributes its first match.
MatchesOfNum(num, folders) ==
    Concat([f \in 1..Len(folders) |->
              IF folders[f].dir.isdir
              THEN LET m == FirstMatch(folders[f].dir.names, Suffix(num))
                   IN  [i \in 1..Len(m) |-> [folder |-> folders[f].path, name |-> m[i]]]
              ELSE <<>>])

\* The loop over nums.
MatchesOfCard(nums, folders) ==
    Concat([k \in 1..Len(nums) |-> MatchesOfNum(nums[k], folders)])

\* What the card appends to media_files (line 185).
MediaOfCard(matches) ==
    [i \in 1..Len(matches) |-> PathJoin(matches[i].folder, matches[i].name)]

\* img_tags of the card (line 186).
TagsOfCard(matches) == [i \in 1..Len(matches) |-> ImgTag(matches[i].name)]

\* One pass of the loop over raw_cards (lines 172-194): the record appended
\* to processed and the paths appended to media_files.
ProcessCard(c, idx, folders) ==
    LET nums == SlideNumbers(c, idx)
        matches == MatchesOfCard(nums, folders)
    IN  [card |-> [question |-> Get(c, "question",
                                    JStr(<<"C","a","r","d"," ">> \o StrOfInt(idx))),
                   answer |-> Get(c, "answer", JStr(<<>>)),
                   explanation |-> Get(c, "explanation", JStr(<<>>)),
                   image |-> JStr(Concat(TagsOfCard(matches))),
                   slide_number |-> nums],
         media |-> MediaOfCard(matches)]

RECURSIVE JoinWith(_, _)
\* sep.join(parts)
JoinWith(sep, parts) ==
    IF parts = <<>> THEN <<>>
    ELSE IF Len(parts) = 1 THEN parts[1]
    ELSE parts[1] \o sep \o JoinWith(sep, Tail(parts))

\* The fields of the Note built from a processed record (lines 234-243).
NoteFields(note) ==
    << note.question, note.answer, note.explanation, note.image,
       JStr(JoinWith(<<",">>, [i \in 1..Len(note.slide_number) |->
                                  PyStr(note.slide_number[i])])) >>

\* Package.write_to_file joins each note's fields as strings and raises
\* TypeError on a field that is not one.
Writable(deck) == \A n \in 1..Len(deck) : \A f \in 1..5 : deck[n][f].t = "str"

-----------------------------------------------------------------------------
(* The handlers *)

\* A response sent before any card was processed, or after an exception.
Response(code, created) ==
    [status |-> code, raw_cards |-> <<>>, processed |-> <<>>, media_files |-> <<>>,
     notes |-> <<>>, created |-> created]

\* generate_apkg from the card loop on (lines 171-252): raw_cards is a
\* non-empty list and the Drive step is done.
BuildDeck(raw, step, local, created) ==
    LET folders == Folders(step, local)
        passes == [i \in 1..Len(raw) |-> ProcessCard(raw[i].v, i, folders)]
        cards == [i \in 1..Len(raw) |-> passes[i].card]
        media == step.media_files \o Concat([i \in 1..Len(raw) |-> passes[i].media])
        deck == [i \in 1..Len(raw) |-> NoteFields(cards[i])]
    IN  [status |-> IF Writable(deck) THEN 200 ELSE 500,
         raw_cards |-> raw, processed |-> cards, media_files |-> media,
         notes |-> deck, created |-> created \cup {TmpApkg}]

\* The whole of generate_apkg on a body, in an environment.
GenerateApkg(body, e) ==
    LET data == ParsedData(body)
    IN  IF data.t = "error" THEN Response(400, {})               \* "Bad JSON"
        ELSE IF data.t \notin {"list", "dict"} THEN Response(500, {})  \* data.get raises
        ELSE
          LET fields == PayloadFields(data)
              raw == fields.raw_cards
          IN  IF ~Truthy(raw) THEN Response(400, {})             \* "Missing cards"
              ELSE IF raw.t \in {"int", "bool"} THEN Response(500, {})  \* len() raises
              ELSE
                LET step == DriveStep(fields, e.drive)
                    created == IF step.set
                               THEN {PathJoin(step.path, step.dir.names[i])
                                       : i \in 1..Len(step.dir.names)}
                               ELSE {}
                IN  IF \/ raw.t # "list"
                       \/ \E i \in 1..Len(raw.v) : raw.v[i].t # "dict"   \* c.get raises
                    THEN Response(500, created)
                    ELSE BuildDeck(raw.v, step, e.local, created)

Whitespace == {" ", "\t", "\n", "\r", "\f"}

RECURSIVE LStrip(_)
LStrip(s) == IF s # <<>> /\ Head(s) \in Whitespace THEN LStrip(Tail(s)) ELSE s

RECURSIVE RStrip(_)
RStrip(s) ==
    IF s # <<>> /\ s[Len(s)] \in Whitespace THEN RStrip(SubSeq(s, 1, Len(s) - 1)) ELSE s

\* str.strip()
Strip(s) == RStrip(LStrip(s))

\* The slides extract_text returns: the pages whose stripped text is not empty.
SlidesOf(pages) ==
    LET kept == {i \in 1..Len(pages) : Strip(pages[i]) # <<>>}
        nth(k) == CHOOSE i \in kept : Cardinality({j \in kept : j < i}) = k - 1
    IN  [k \in 1..Cardinality(kept) |->
           [slide_number |-> nth(k), text |-> Strip(pages[nth(k)])]]

\* The environments a request can meet.  Drive is consulted only for a
\* payload that names a lecture file; extract_text consults neither.
Envs(req) ==
    IF req.endpoint = "/extract-text" THEN {[local |-> NoDir, drive |-> NotConsulted]}
    ELSE LET data == ParsedData(req.body)
             wantsDrive == /\ data.t = "dict"
                           /\ Truthy(Get(data.v, "lecture_file_drive_id", None))
         IN  {[local |-> l, drive |-> d] :
                 l \in LocalFolders,
                 d \in IF wantsDrive THEN DriveOutcomes ELSE {NotConsulted}}

Init ==
    /\ request \in Requests
    /\ env \in Envs(request)
    /\ pc = "received"
    /\ status = 0
    /\ raw_cards = <<>>
    /\ processed = <<>>
    /\ media_files = <<>>
    /\ notes = <<>>
    /\ slides = <<>>
    /\ fs = {}

\* POST /generate-apkg
generate_apkg ==
    /\ pc = "received"
    /\ request.endpoint = "/generate-apkg"
    /\ LET r == GenerateApkg(request.body, env)
       IN  /\ status' = r.status
           /\ raw_cards' = r.raw_cards
           /\ processed' = r.processed
           /\ media_files' = r.media_files
           /\ notes' = r.notes
           /\ fs' = fs \cup r.created
    /\ pc' = "done"
    /\ UNCHANGED <<request, env, slides>>

\* POST /extract-text
extract_text ==
    /\ pc = "received"
    /\ request.endpoint = "/extract-text"
    /\ LET upload == request.upload
       IN  CASE upload.file = "absent" ->         \* "No file uploaded"
                  status' = 400 /\ slides' = <<>> /\ fs' = fs
             [] upload.file = "corrupt" ->        \* fitz.open raises; tmp stays
                  status' = 500 /\ slides' = <<>> /\ fs' = fs \cup {TmpPdf}
             [] upload.file = "pdf" ->            \* os.remove(tmp.name)
                  status' = 200 /\ slides' = SlidesOf(upload.pages)
                  /\ fs' = (fs \cup {TmpPdf}) \ {TmpPdf}
    /\ pc' = "done"
    /\ UNCHANGED <<request, env, raw_cards, processed, media_files, notes>>

Next == generate_apkg \/ extract_text

Spec == Init /\ [][Next]_vars

-----------------------------------------------------------------------------
(* What the properties speak of *)

\* generate_apkg has answered.
Answered == pc = "done" /\ request.endpoint = "/generate-apkg"

\* generate_apkg has run its card loop to the end: processed[i] is the
\* record built from raw_cards[i].
Built == Answered /\ processed # <<>>

\* The card list the payload carries (empty when it carries none).
SubmittedCards(body) ==
    LET data == ParsedData(body)
    IN  IF data.t \notin {"list", "dict"} THEN <<>>
        ELSE LET raw == PayloadFields(data).raw_cards
             IN  IF raw.t = "list" THEN raw.v ELSE <<>>

\* One level of nesting removed, when the first element is itself a list.
Flattened(xs) ==
    IF xs # <<>> /\ xs[1].t = "list"
    THEN Concat([i \in 1..Len(xs) |-> IF xs[i].t = "list" THEN xs[i].v ELSE <<xs[i]>>])
    ELSE xs

\* A card list a caller may send: not empty and, once flattened, all cards.
ValidCards(xs) ==
    /\ Flattened(xs) # <<>>
    /\ \A i \in 1..Len(Flattened(xs)) : Flattened(xs)[i].t = "dict"

\* The folders the request's card loop met.
FoldersMet ==
    Folders(DriveStep(PayloadFields(ParsedData(request.body)), env.drive), env.local)

ImgPrefix == <<"<","i","m","g"," ","s","r","c","=","'">>

RECURSIVE ImgSrcs(_)
\* The file names an HTML reader (Anki's media scan) takes from the
\* <img src='...'> tags of a string, in order: the src value runs to the next
\* apostrophe, the tag to the next ">".
ImgSrcs(s) ==
    IF Len(s) < Len(ImgPrefix) + 2 THEN <<>>
    ELSE IF SubSeq(s, 1, Len(ImgPrefix)) # ImgPrefix THEN ImgSrcs(Tail(s))
    ELSE LET rest == SubSeq(s, Len(ImgPrefix) + 1, Len(s))
             quotes == {i \in 1..Len(rest) : rest[i] = "'"}
             q == CHOOSE i \in quotes : \A j \in quotes : i <= j
             closes == {i \in 1..Len(rest) : i > q /\ rest[i] = ">"}
             e == CHOOSE i \in closes : \A j \in closes : i <= j
         IN  IF quotes = {} \/ closes = {} THEN ImgSrcs(Tail(s))
             ELSE <<SubSeq(rest, 1, q - 1)>> \o ImgSrcs(SubSeq(rest, e + 1, Len(rest)))

CardTitle(idx) == JStr(<<"C","a","r","d"," ">> \o StrOfInt(idx))

LowerKey ==
    [Question |-> "question", Answer |-> "answer", Explanation |-> "explanation",
     Slide_number |-> "slide_number", Image |-> "image"]

\* A card keyed only with capitalised keys, and the same card in lower case.
CapitalKeyed(c) == DOMAIN c # {} /\ DOMAIN c \subseteq DOMAIN LowerKey
LowerKeyed(c) ==
    [k \in {LowerKey[K] : K \in DOMAIN c} |->
        c[CHOOSE K \in DOMAIN c : LowerKey[K] = k]]

-----------------------------------------------------------------------------
(* Properties *)

\* C1: for every accepted payload the deck holds one note per card of the
\* card list flattened by one level; a list whose first element is a list
\* is flattened and answered 200, not rejected.
C1_NotesMatchFlattenedCards ==
    (Answered /\ ValidCards(SubmittedCards(request.body))) =>
        LET xs == SubmittedCards(request.body)
        IN  /\ Len(notes) = Len(Flattened(xs))
            /\ xs[1].t = "list" => status = 200

\* The client input errors of /generate-apkg: a body that is not JSON, a JSON
\* string that does not hold JSON, a top-level value that is neither a list
\* nor an object, a card list that is missing or empty.
ClientInputError(body) ==
    LET data == ParsedData(body)
    IN  \/ body.t = "invalid"
        \/ data.t = "error"
        \/ data.t \notin {"list", "dict", "error"}
        \/ data.t \in {"list", "dict"} /\ ~Truthy(PayloadFields(data).raw_cards)

\* C2: every client input error on /generate-apkg is answered 400.
C2_ClientErrorsAre400 ==
    (Answered /\ ClientInputError(request.body)) => status = 400

\* C3: a card keyed Question/Answer/Explanation/Slide_number/Image is
\* processed to the same record as the same card keyed in lower case.
C3_KeyCaseInvariance ==
    Built =>
        \A i \in 1..Len(raw_cards) :
            CapitalKeyed(raw_cards[i].v) =>
                processed[i] = ProcessCard(LowerKeyed(raw_cards[i].v), i, FoldersMet).card

\* C4 as claimed: slide_number is [idx] only when the key is absent, [n] for
\* a scalar n, the given list for a list, and never empty.
C4_SlideNumbersAsClaimed ==
    Built =>
        \A i \in 1..Len(raw_cards) :
            LET c == raw_cards[i].v
                nums == processed[i].slide_number
            IN  /\ "slide_number" \notin DOMAIN c => nums = <<JInt(i)>>
                /\ "slide_number" \in DOMAIN c =>
                      /\ c.slide_number.t # "list" => nums = <<c.slide_number>>
                      /\ c.slide_number.t = "list" => nums = c.slide_number.v
                      /\ nums = <<JInt(i)>> =>
                            c.slide_number \in {JInt(i), JList(<<JInt(i)>>)}
                /\ nums # <<>>

\* C4 amended: slide_number is [idx] when the key is absent or its value is
\* falsy (null, 0, false, an empty string or list), [n] for any other scalar
\* n, the given list for a non-empty list; it is never empty.
C4_SlideNumbers ==
    Built =>
        \A i \in 1..Len(raw_cards) :
            LET c == raw_cards[i].v
                nums == processed[i].slide_number
                given == "slide_number" \in DOMAIN c /\ Truthy(c.slide_number)
            IN  /\ ~given => nums = <<JInt(i)>>
                /\ given /\ c.slide_number.t # "list" => nums = <<c.slide_number>>
                /\ given /\ c.slide_number.t = "list" => nums = c.slide_number.v
                /\ nums # <<>>

\* A second card with slide_number 0 and one with slide_number [] have been
\* processed, next to a card with a list of slide numbers.
C4_Witness ==
    /\ Built
    /\ \E i \in 1..Len(raw_cards) :
          /\ i = 2
          /\ "slide_number" \in DOMAIN raw_cards[i].v
          /\ raw_cards[i].v.slide_number \in {JInt(0), JList(<<>>)}
          /\ processed[i].slide_number = <<JInt(2)>>
    /\ \E i \in 1..Len(raw_cards) :
          /\ "slide_number" \in DOMAIN raw_cards[i].v
          /\ raw_cards[i].v.slide_number.t = "list"
          /\ Len(processed[i].slide_number) = 3

\* The first non-empty of question and Question, else "Card {idx}".
QuestionClaimed(c, idx) ==
    IF "question" \in DOMAIN c /\ Truthy(c.question) THEN c.question
    ELSE IF "Question" \in DOMAIN c /\ Truthy(c.Question) THEN c.Question
    ELSE CardTitle(idx)

\* C5: the question of every processed card is non-empty: the first
\* non-empty of the question and Question keys, else "Card {idx}".
C5_QuestionNonEmpty ==
    Built =>
        \A i \in 1..Len(raw_cards) :
            /\ processed[i].question = QuestionClaimed(raw_cards[i].v, i)
            /\ processed[i].question.t = "str"
            /\ processed[i].question.v # <<>>

\* C6: positional matching attaches at most one file per slide number (the
\* first match over the pools wins, the remote pool first): a card with k
\* slide numbers carries at most k image tags.
C6_OneFilePerSlideNumber ==
    Built =>
        \A i \in 1..Len(processed) :
            Len(ImgSrcs(processed[i].image.v)) <= Len(processed[i].slide_number)

\* C7: the media manifest handed to Package holds every path at most once.
C7_ManifestHasNoDuplicates ==
    Answered =>
        \A i, j \in 1..Len(media_files) : media_files[i] = media_files[j] => i = j

\* The pool file an explicit <img src='FILENAME'> of the card resolves to:
\* the remote-downloaded folder first, then the local one.
ExplicitFile(c, folders) ==
    LET srcs == IF "image" \in DOMAIN c /\ c.image.t = "str"
                THEN ImgSrcs(c.image.v) ELSE <<>>
        holds == {f \in 1..Len(folders) :
                    /\ srcs # <<>>
                    /\ folders[f].dir.isdir
                    /\ \E n \in 1..Len(folders[f].dir.names) :
                           folders[f].dir.names[n] = srcs[1]}
    IN  IF holds = {} THEN <<>>
        ELSE <<[folder |-> folders[CHOOSE f \in holds : \A g \in holds : f <= g].path,
                name |-> srcs[1]]>>

\* C8: a card whose image field names a file of the remote or local pool
\* gets exactly that file: its Image field is that one tag and the manifest
\* holds that file's path.
C8_ExplicitReferenceWins ==
    Built =>
        \A i \in 1..Len(raw_cards) :
            LET hit == ExplicitFile(raw_cards[i].v, FoldersMet)
            IN  hit # <<>> =>
                  /\ processed[i].image.v = ImgTag(hit[1].name)
                  /\ \E m \in 1..Len(media_files) :
                        media_files[m] = PathJoin(hit[1].folder, hit[1].name)

\* C9: when the package is written, every file name in an <img src='...'>
\* tag of a note's Image field is the base name of a path of the manifest.
C9_NoDanglingImage ==
    (Answered /\ status = 200) =>
        \A n \in 1..Len(notes) :
            LET srcs == ImgSrcs(notes[n][4].v)
            IN  \A k \in 1..Len(srcs) :
                    \E m \in 1..Len(media_files) : Basename(media_files[m]) = srcs[k]

\* The same for the requests whose folders hold no file name with an
\* apostrophe: there every tag of a note names a file of the manifest.
NoDanglingImageUnquoted ==
    (Answered /\ status = 200
       /\ \A f \in 1..Len(FoldersMet) : \A n \in 1..Len(FoldersMet[f].dir.names) :
              \A k \in 1..Len(FoldersMet[f].dir.names[n]) :
                  FoldersMet[f].dir.names[n][k] # "'") =>
        \A n \in 1..Len(notes) :
            LET srcs == ImgSrcs(notes[n][4].v)
            IN  \A k \in 1..Len(srcs) :
                    \E m \in 1..Len(media_files) : Basename(media_files[m]) = srcs[k]

\* C10: once a request has been answered, every transient file it created
\* (the saved upload, the downloaded images, the .apkg) is gone.
C10_TransientFilesRemoved == pc = "done" => fs = {}

=============================================================================
